---- MODULE Spec2Model ----
(***************************************************************************)
(* A model of bibtex_to_html.py: the selection of entries from a bibtex   *)
(* database, the recovery of an arXiv identifier from an entry, and the   *)
(* rendering of entries, badges and author lines as html.                 *)
(*                                                                         *)
(* Python values are modelled as follows.                                  *)
(*   - a str the code inspects (searches, splits, indexes, re-cases) is a  *)
(*     sequence of one-character strings; "" is << >>;                     *)
(*   - a dict is a function whose domain is the set of its keys, so        *)
(*     `k in d` is k \in DOMAIN d; field names and citation keys are       *)
(*     TLA+ strings;                                                       *)
(*   - None is << >> and a value v that may be None is << v >>;            *)
(*   - the html text a function builds with `html += piece` is the         *)
(*     sequence of its pieces, each a TLA+ string; the text itself is the  *)
(*     concatenation of the pieces (text);                                 *)
(*   - a call returns [err, val]: err is "none" or the name of the         *)
(*     exception that ended it.                                            *)
(***************************************************************************)
EXTENDS Integers, Sequences, FiniteSets, TLC

VARIABLES
    pc,        \* where the run stands
    cfg,       \* the settings of lines 45-58
    db,        \* db.entries
    key,       \* the request handed to get_entry_for_citekey
    entries,   \* what main holds as `entries`
    entry,     \* the entry handed to the function under study
    kwargs,    \* the keyword arguments handed to format_badge
    ret,       \* what the last call returned
    calls      \* how many calls were made

vars == <<pc, cfg, db, key, entries, entry, kwargs, ret, calls>>

----------------------------------------------------------------------------
(* Bounds of the model *)

\* calls of one function on the same entry
MaxCalls == 2

----------------------------------------------------------------------------
(* Python's None, dicts and strings *)

None == << >>
Some(v) == << v >>

\* d[k] = v on a dict
DictSet(d, k, v) == [f \in DOMAIN d \cup {k} |-> IF f = k THEN v ELSE d[f]]

\* the dict holding the fields of r that are not None (r: a record of optional values)
FromOpt(r) == [f \in {g \in DOMAIN r : r[g] # None} |-> r[f][1]]

Opt(S) == {None} \cup {Some(v) : v \in S}

LowerChars == <<"a","b","c","d","e","f","g","h","i","j","k","l","m",
                "n","o","p","q","r","s","t","u","v","w","x","y","z">>
UpperChars == <<"A","B","C","D","E","F","G","H","I","J","K","L","M",
                "N","O","P","Q","R","S","T","U","V","W","X","Y","Z">>

IsUpper(c) == \E i \in 1..Len(UpperChars) : UpperChars[i] = c
IsLower(c) == \E i \in 1..Len(LowerChars) : LowerChars[i] = c
IsCased(c) == IsUpper(c) \/ IsLower(c)

LowerChar(c) ==
    IF IsUpper(c) THEN LowerChars[CHOOSE i \in 1..Len(UpperChars) : UpperChars[i] = c] ELSE c
UpperChar(c) ==
    IF IsLower(c) THEN UpperChars[CHOOSE i \in 1..Len(LowerChars) : LowerChars[i] = c] ELSE c

\* Bind([t \in {a} |-> body]) is body with t bound to the value of a, which is
\* evaluated once, as a Python local is. TLC evaluates the argument of an operator
\* anew wherever the operator's body uses it; a bound variable holds a value.
Bind(fn) == CHOOSE r \in {f[CHOOSE x \in DOMAIN f : TRUE] : f \in {fn}} : TRUE

\* str.lower()
lower(s) == Bind([t \in {s} |-> [i \in 1..Len(t) |-> LowerChar(t[i])]])

\* str.title(): a cased character is upper-cased after an uncased one (or at the
\* start) and lower-cased after a cased one
title(s) ==
    Bind([t \in {s} |-> [i \in 1..Len(t) |->
            IF i > 1 /\ IsCased(t[i - 1]) THEN LowerChar(t[i]) ELSE UpperChar(t[i])]])

\* sub occurs in s at position i
IsAt(s, sub, i) == i + Len(sub) - 1 <= Len(s) /\ SubSeq(s, i, i + Len(sub) - 1) = sub

\* `sub in s`, for a non-empty sub
contains(s, sub) == \E t \in {s}, u \in {sub} : \E i \in 1..Len(t) : IsAt(t, u, i)

\* s.find(sub) + 1: the first position of sub in s, 0 when there is none
find(s, sub) ==
    Bind([t \in {s} |->
        IF contains(t, sub)
        THEN CHOOSE i \in 1..Len(t) : IsAt(t, sub, i) /\ \A j \in 1..(i - 1) : ~IsAt(t, sub, j)
        ELSE 0])

\* s.split(sep, 1)[1], for an s that contains sep
split_1_after(s, sep) == Bind([t \in {s} |-> SubSeq(t, find(t, sep) + Len(sep), Len(t))])

\* s.split(sep, 1)[0], for an s that contains sep
split_1_before(s, sep) == SubSeq(s, 1, find(s, sep) - 1)

\* s.replace(old, new), every occurrence, left to right
RECURSIVE replace(_, _, _)
replace(s, old, new) ==
    Bind([t \in {s} |->
        IF contains(t, old)
        THEN split_1_before(t, old) \o new \o replace(split_1_after(t, old), old, new)
        ELSE t])

\* s.split(sep)
RECURSIVE split(_, _)
split(s, sep) ==
    Bind([t \in {s} |->
        IF contains(t, sep)
        THEN <<split_1_before(t, sep)>> \o split(split_1_after(t, sep), sep)
        ELSE <<t>>])

\* s.strip(), of blanks
RECURSIVE strip(_)
strip(s) ==
    Bind([t \in {s} |->
        IF t # << >> /\ Head(t) = " " THEN strip(Tail(t))
        ELSE IF t # << >> /\ t[Len(t)] = " " THEN strip(SubSeq(t, 1, Len(t) - 1))
        ELSE t])

\* sep.join(parts)
RECURSIVE join(_, _)
join(sep, parts) ==
    Bind([p \in {parts} |->
        IF p = << >> THEN << >>
        ELSE IF Len(p) = 1 THEN p[1]
        ELSE p[1] \o sep \o join(sep, Tail(p))])

\* the text that a sequence of pieces makes up, joined by halves
RECURSIVE text(_)
text(pieces) ==
    Bind([p \in {pieces} |->
        IF p = << >> THEN ""
        ELSE IF Len(p) = 1 THEN p[1]
        ELSE text(SubSeq(p, 1, Len(p) \div 2)) \o text(SubSeq(p, Len(p) \div 2 + 1, Len(p)))])

\* the TLA+ string that a sequence of characters spells
str(s) == text(s)

\* a call's outcome
Return(v) == [err |-> "none", val |-> v]
Raise(e) == [err |-> e, val |-> << >>]

----------------------------------------------------------------------------
(* The strings of find_arxiv_id_in_entry, and the field values the model draws *)

\* 'arxiv'
STR_arxiv ==
    <<"a","r","x","i","v">>
\* 'arXiv.'
STR_arXivDot ==
    <<"a","r","X","i","v",".">>
\* 'arxiv.org/abs/'
STR_arxiv_abs ==
    <<"a","r","x","i","v",".","o","r","g","/","a","b","s","/">>
\* '2004.01105'
EPRINT_A ==
    <<"2","0","0","4",".","0","1","1","0","5">>
\* 'arxiv'
TYPE_lower ==
    <<"a","r","x","i","v">>
\* 'arXiv'
TYPE_mixed ==
    <<"a","r","X","i","v">>
\* 'ARXIV'
TYPE_upper ==
    <<"A","R","X","I","V">>
\* 'pubmed'
TYPE_pubmed ==
    <<"p","u","b","m","e","d">>
\* '10.1103/PhysRevE.1'
DOI_journal ==
    <<"1","0",".","1","1","0","3","/","P","h","y","s","R","e","v","E",".","1">>
\* '10.48550/arXiv.2201.00001'
DOI_arxiv ==
    <<"1","0",".","4","8","5","5","0","/","a","r","X","i","v",".","2","2","0","1",".","0",
    "0","0","0","1">>
\* '10.48550/arXiv.arXiv.7'
DOI_arxiv_twice ==
    <<"1","0",".","4","8","5","5","0","/","a","r","X","i","v",".","a","r","X","i","v",".",
    "7">>
\* '10.48550/arxiv.2201.00001'
DOI_lowercase ==
    <<"1","0",".","4","8","5","5","0","/","a","r","x","i","v",".","2","2","0","1",".","0",
    "0","0","0","1">>
\* 'https://arxiv.org/abs/1707.02118'
URL_arxiv ==
    <<"h","t","t","p","s",":","/","/","a","r","x","i","v",".","o","r","g","/","a","b","s",
    "/","1","7","0","7",".","0","2","1","1","8">>
\* 'https://www.biorxiv.org/content/early/2018/04/11/299859'
URL_biorxiv ==
    <<"h","t","t","p","s",":","/","/","w","w","w",".","b","i","o","r","x","i","v",".","o",
    "r","g","/","c","o","n","t","e","n","t","/","e","a","r","l","y","/","2","0","1","8","/",
    "0","4","/","1","1","/","2","9","9","8","5","9">>
\* 'https://arxiv.org/pdf/1707.02118'
URL_arxiv_pdf ==
    <<"h","t","t","p","s",":","/","/","a","r","x","i","v",".","o","r","g","/","p","d","f",
    "/","1","7","0","7",".","0","2","1","1","8">>
\* 'https://doi.org/10.1103/PhysRevE.1'
URL_journal ==
    <<"h","t","t","p","s",":","/","/","d","o","i",".","o","r","g","/","1","0",".","1","1",
    "0","3","/","P","h","y","s","R","e","v","E",".","1">>
\* 'http://arxiv.org/abs/1/arxiv.org/abs/2'
URL_arxiv_twice ==
    <<"h","t","t","p",":","/","/","a","r","x","i","v",".","o","r","g","/","a","b","s","/",
    "1","/","a","r","x","i","v",".","o","r","g","/","a","b","s","/","2">>

EprintValues == {EPRINT_A, << >>}
EprintTypeValues == {TYPE_lower, TYPE_mixed, TYPE_upper, TYPE_pubmed}
DoiValues == {DOI_journal, DOI_arxiv, DOI_arxiv_twice, DOI_lowercase, << >>}
UrlValues == {URL_arxiv, URL_biorxiv, URL_arxiv_pdf, URL_journal, URL_arxiv_twice, << >>}

----------------------------------------------------------------------------
(* find_arxiv_id_in_entry *)

\* the eprint rule applies: an eprint together with an arXiv eprinttype
HasArxivEprint(e) ==
    /\ "eprint" \in DOMAIN e
    /\ "eprinttype" \in DOMAIN e
    /\ lower(e["eprinttype"]) = STR_arxiv

\* the doi rule applies
HasArxivDoi(e) == "doi" \in DOMAIN e /\ contains(e["doi"], STR_arXivDot)

\* the url rule applies
HasArxivUrl(e) == "url" \in DOMAIN e /\ contains(e["url"], STR_arxiv_abs)

\* the loop with the eprint rule not leaving it
arxiv_id_eprint_falls_through(e) ==
    LET from_eprint == IF HasArxivEprint(e) THEN Some(e["eprint"]) ELSE None
        from_doi == IF HasArxivDoi(e)
                    THEN Some(split_1_after(e["doi"], STR_arXivDot))
                    ELSE from_eprint
    IN  IF HasArxivUrl(e) THEN Some(split_1_after(e["url"], STR_arxiv_abs)) ELSE from_doi

\* the loop with the url rule testing for "rxiv.org/" only
arxiv_id_loose_url(e) ==
    LET loose == SubSeq(STR_arxiv_abs, 2, 10)
    IN  IF HasArxivEprint(e)
        THEN Some(e["eprint"])
        ELSE LET after_doi == IF HasArxivDoi(e)
                              THEN Some(split_1_after(e["doi"], STR_arXivDot))
                              ELSE None
             IN  IF "url" \in DOMAIN e /\ contains(e["url"], loose)
                 THEN Some(split_1_after(e["url"], loose))
                 ELSE after_doi

\* arxiv_id on leaving the loop: the body runs once, every path through it
\* ends in a break. The eprint rule breaks at once; the doi rule assigns and
\* goes on to the url rule, which assigns over it.
arxiv_id_of(e) ==
    IF HasArxivEprint(e)
    THEN Some(e["eprint"])
    ELSE LET after_doi == IF HasArxivDoi(e)
                          THEN Some(split_1_after(e["doi"], STR_arXivDot))
                          ELSE None
         IN  IF HasArxivUrl(e)
             THEN Some(split_1_after(e["url"], STR_arxiv_abs))
             ELSE after_doi

\* the function: what it returns (an id or None) and the entry it leaves
find_arxiv_id_in_entry(e, add_to_entry) ==
    LET arxiv_id == arxiv_id_of(e)
    IN  [ret   |-> arxiv_id,
         entry |-> IF add_to_entry /\ arxiv_id # None
                   THEN DictSet(e, "arxiv_org_id", arxiv_id[1])
                   ELSE e]

\* the entries the identifier resolver is tried on
ResolverEntries ==
    {FromOpt([ID |-> Some("k1"), eprint |-> ep, eprinttype |-> et, doi |-> d, url |-> u]) :
        ep \in Opt(EprintValues), et \in Opt(EprintTypeValues),
        d \in Opt(DoiValues), u \in Opt(UrlValues)}

\* the settings as lines 45-58 set them
DefaultSettings ==
    [show_abstracts |-> TRUE, show_altmetric |-> TRUE, show_arxiv_badge |-> TRUE,
     use_shieldsio_for_badges |-> TRUE, use_bootstrap_button_for_abstract |-> TRUE]

InitResolver ==
    /\ pc = "start"
    /\ cfg = DefaultSettings
    /\ db = << >>
    /\ key = << >>
    /\ entries = << >>
    /\ entry \in ResolverEntries
    /\ kwargs = << >>
    /\ ret = Return(None)
    /\ calls = 0

\* one call find_arxiv_id_in_entry(entry, add_to_entry)
FindArxivIdInEntry ==
    /\ pc \in {"start", "returned"}
    /\ calls < MaxCalls
    /\ \E add_to_entry \in BOOLEAN :
        LET r == find_arxiv_id_in_entry(entry, add_to_entry)
        IN  /\ entry' = r.entry
            /\ ret' = [err |-> "none", val |-> r.ret,
                       before |-> entry, add_to_entry |-> add_to_entry]
    /\ pc' = "returned"
    /\ calls' = calls + 1
    /\ UNCHANGED <<cfg, db, key, entries, kwargs>>

NextResolver == FindArxivIdInEntry

SpecResolver == InitResolver /\ [][NextResolver]_vars

----------------------------------------------------------------------------
(* The strings of format_badge, and the badge values the model draws *)

\* 'github'
STR_github ==
    <<"g","i","t","h","u","b">>
\* 'https://arxiv.org/abs/'
STR_arxiv_prefix ==
    <<"h","t","t","p","s",":","/","/","a","r","x","i","v",".","o","r","g","/","a","b","s",
    "/">>
\* 'arXiv'
STR_arXiv ==
    <<"a","r","X","i","v">>
\* 'b31b1b'
STR_b31b1b ==
    <<"b","3","1","b","1","b">>
\* 'GitHub'
STR_GitHub ==
    <<"G","i","t","H","u","b">>
\* '066da5'
STR_066da5 ==
    <<"0","6","6","d","a","5">>
\* 'ARXIV'
DESC_ARXIV ==
    <<"A","R","X","I","V">>
\* 'Code'
DESC_Code ==
    <<"C","o","d","e">>
\* 'https://arxiv.org/abs/1234.5678'
URL_badge_arxiv ==
    <<"h","t","t","p","s",":","/","/","a","r","x","i","v",".","o","r","g","/","a","b","s",
    "/","1","2","3","4",".","5","6","7","8">>
\* 'https://github.com/x/y'
URL_badge_github ==
    <<"h","t","t","p","s",":","/","/","g","i","t","h","u","b",".","c","o","m","/","x","/",
    "y">>
\* 'https://x.org/?u=https://arxiv.org/abs/1'
URL_badge_inner ==
    <<"h","t","t","p","s",":","/","/","x",".","o","r","g","/","?","u","=","h","t","t","p",
    "s",":","/","/","a","r","x","i","v",".","o","r","g","/","a","b","s","/","1">>
\* 'docs'
LEFT_docs ==
    <<"d","o","c","s">>
\* 'online'
RIGHT_online ==
    <<"o","n","l","i","n","e">>
\* 'blue'
COLOR_blue ==
    <<"b","l","u","e">>
\* 'gitlab'
LOGO_gitlab ==
    <<"g","i","t","l","a","b">>
\* 'white'
LOGOCOLOR_white ==
    <<"w","h","i","t","e">>

DescValues == {STR_arXiv, DESC_ARXIV, STR_arxiv, STR_GitHub, STR_github, DESC_Code}
BadgeUrlValues == {URL_badge_arxiv, URL_badge_github, URL_badge_inner}

----------------------------------------------------------------------------
(* shieldio and format_badge *)

\* shieldio(left, right, color=None, logo=None, logoColor=None): the pieces of
\* the url of the shields.io image
shieldio(left, right, color, logo, logoColor) ==
    <<"https://img.shields.io/badge/">>
    \o <<str(left) \o "-" \o str(right)>>
    \o (IF color # None THEN <<"-" \o str(color[1])>> ELSE << >>)
    \o (IF logo # None
        THEN <<"?logo=" \o str(logo[1])>>
             \o (IF logoColor # None THEN <<"&logoColor=" \o str(logoColor[1])>> ELSE << >>)
        ELSE << >>)

ShieldioParams == {"left", "right", "color", "logo", "logoColor"}

\* kw[k] when kw has k, else the default None
Get(kw, k) == IF k \in DOMAIN kw THEN Some(kw[k]) ELSE None

\* shieldio(**kw): Python binds the keywords to the parameters first, and raises
\* TypeError for a keyword that is no parameter or a missing left or right
shieldio_call(kw) ==
    IF DOMAIN kw \subseteq ShieldioParams /\ {"left", "right"} \subseteq DOMAIN kw
    THEN Return(shieldio(kw["left"], kw["right"],
                         Get(kw, "color"), Get(kw, "logo"), Get(kw, "logoColor")))
    ELSE Raise("TypeError")

\* the image branch of format_badge with the descriptions compared as written
badge_image_case_sensitive(kw) ==
    IF Cardinality(DOMAIN kw) = 2 /\ "desc" \in DOMAIN kw /\ "url" \in DOMAIN kw
    THEN IF kw["desc"] = STR_arxiv
         THEN Return(shieldio(STR_arXiv, replace(kw["url"], STR_arxiv_prefix, << >>),
                              Some(STR_b31b1b), None, None))
         ELSE IF kw["desc"] = STR_github
         THEN Return(shieldio(<< >>, STR_GitHub, Some(STR_066da5), Some(STR_github), None))
         ELSE Return(<< >>)
    ELSE shieldio_call(kw)

\* lines 461-471: the pieces of the src of the image
badge_image(kw) ==
    IF Cardinality(DOMAIN kw) = 2 /\ "desc" \in DOMAIN kw /\ "url" \in DOMAIN kw
    THEN IF STR_arxiv = lower(kw["desc"])
         THEN Return(shieldio(STR_arXiv, replace(kw["url"], STR_arxiv_prefix, << >>),
                              Some(STR_b31b1b), None, None))
         ELSE IF STR_github = lower(kw["desc"])
         THEN Return(shieldio(<< >>, STR_GitHub, Some(STR_066da5), Some(STR_github), None))
         ELSE Return(<< >>)
    ELSE shieldio_call(kw)

\* format_badge(**kw) under the setting use_shieldsio_for_badges = shields
format_badge(kw, shields) ==
    IF shields
    THEN IF "url" \notin DOMAIN kw THEN Raise("KeyError")
         ELSE Bind([img \in {badge_image(kw)} |->
                    IF img.err # "none" THEN img
                    ELSE Return(<<"<span class=\"pub_badge\">\n",
                                  "<a class=\"pub_badge_link\"",
                                  "href=\"" \o str(kw["url"]) \o "\">",
                                  "<img src=\"">>
                                \o img.val
                                \o <<"\"></img>", "</a>", "\n</span>\n">>)])
    ELSE IF "url" \notin DOMAIN kw \/ "desc" \notin DOMAIN kw THEN Raise("KeyError")
         ELSE Return(<<"<span class=\"pub_badge\">\n",
                       "[",
                       "<a class=\"pub_badge_link\"",
                       "href=\"" \o str(kw["url"]) \o "\">",
                       str(kw["desc"]),
                       "</a>",
                       "]",
                       "\n</span>\n">>)

\* lines 308-309 of entry_to_html, for one element b of entry['badges']
badge_of_entry(b, shields) ==
    IF ~("url" \in DOMAIN b /\ "desc" \in DOMAIN b) THEN Raise("AssertionError")
    ELSE format_badge(b, shields)

\* the badge records the model draws
BadgeRecords ==
    {FromOpt([desc |-> d, description |-> dn, url |-> u, left |-> l, right |-> r,
              color |-> c, logo |-> lg, logoColor |-> lc]) :
        d \in Opt(DescValues), dn \in Opt({STR_arXiv, STR_GitHub}),
        u \in Opt(BadgeUrlValues), l \in Opt({LEFT_docs, << >>}), r \in Opt({RIGHT_online}),
        c \in Opt({COLOR_blue}), lg \in Opt({LOGO_gitlab}), lc \in Opt({LOGOCOLOR_white})}

InitBadge ==
    /\ pc = "start"
    /\ cfg \in {[DefaultSettings EXCEPT !.use_shieldsio_for_badges = b] : b \in BOOLEAN}
    /\ db = << >>
    /\ key = << >>
    /\ entries = << >>
    /\ entry = << >>
    /\ kwargs \in BadgeRecords
    /\ ret = Return(<< >>)
    /\ calls = 0

\* a call format_badge(**kwargs)
FormatBadge ==
    /\ pc = "start"
    /\ ret' = format_badge(kwargs, cfg.use_shieldsio_for_badges)
    /\ pc' = "format_badge"
    /\ UNCHANGED <<cfg, db, key, entries, entry, kwargs, calls>>

\* kwargs as an element of entry['badges'], in the loop of entry_to_html
BadgeOfEntry ==
    /\ pc = "start"
    /\ ret' = badge_of_entry(kwargs, cfg.use_shieldsio_for_badges)
    /\ pc' = "badge_of_entry"
    /\ UNCHANGED <<cfg, db, key, entries, entry, kwargs, calls>>

NextBadge == FormatBadge \/ BadgeOfEntry

SpecBadge == InitBadge /\ [][NextBadge]_vars

----------------------------------------------------------------------------
(* The strings of format_authors, and the names the model draws *)

\* ' and '
STR_and ==
    <<" ","a","n","d"," ">>
\* ' et al.'
STR_et_al ==
    <<" ","e","t"," ","a","l",".">>
\* 'Spitzner, Franz Paul'
NAME_spitzner ==
    <<"S","p","i","t","z","n","e","r",","," ","F","r","a","n","z"," ","P","a","u","l">>
\* 'Smith, John'
NAME_smith ==
    <<"S","m","i","t","h",","," ","J","o","h","n">>
\* 'Doe, Jane'
NAME_doe ==
    <<"D","o","e",","," ","J","a","n","e">>
\* 'Truman, Harry S'
NAME_truman ==
    <<"T","r","u","m","a","n",","," ","H","a","r","r","y"," ","S">>
\* '{Wu}, J. Yi'
NAME_wu ==
    <<"{","W","u","}",","," ","J","."," ","Y","i">>
\* 'van den Heuvel, edwin'
NAME_heuvel ==
    <<"v","a","n"," ","d","e","n"," ","H","e","u","v","e","l",","," ","e","d","w","i","n">>
\* 'Jens Wilting'
NAME_plain ==
    <<"J","e","n","s"," ","W","i","l","t","i","n","g">>

\* a given name of one character (NAME_truman); bibtex braces, an initial and
\* a given name of two letters (NAME_wu); a von part and a lower-case given
\* name (NAME_heuvel); "First Last" (NAME_plain)
NameValues ==
    {NAME_spitzner, NAME_smith, NAME_doe, NAME_truman, NAME_wu, NAME_heuvel, NAME_plain}

\* authors in one author field
MaxAuthors == 3

\* the threshold of "et al." that the model passes besides the default
SmallEtAlAt == 2

\* the default of et_al_at
DefaultEtAlAt == 1000

----------------------------------------------------------------------------
(* cleanup *)

\* s without the characters of drop
without(s, drop) == SelectSeq(s, LAMBDA c : c \notin drop)

\* LatexNodes2Text().latex_to_text(raw), for text whose only LaTeX is bibtex's
\* grouping braces: the braces go, their content stays
latex_to_text(raw) == without(raw, {"{", "}"})

\* cleanup(raw): LaTeX to text, then double quotes to single quotes
cleanup(raw) == replace(latex_to_text(raw), <<"\"">>, <<"'">>)

----------------------------------------------------------------------------
(* format_authors *)

\* s.split(): the words of s between runs of blanks
RECURSIVE words(_)
words(s) ==
    Bind([t \in {strip(s)} |->
        IF t = << >> THEN << >>
        ELSE IF contains(t, <<" ">>)
             THEN <<split_1_before(t, <<" ">>)>> \o words(split_1_after(t, <<" ">>))
             ELSE <<t>>])

\* bibtexparser's getnames on one name: "Last, First" stays, up to blanks;
\* "First Last" becomes "Last, First", a blank put after every period of First.
\* (Names whose words are jr, jnr, junior, ben, van, der, de, la, le among the
\* given names are treated specially by the library and are not drawn.)
getname(namestring) ==
    IF contains(namestring, <<",">>)
    THEN split_1_before(namestring, <<",">>) \o <<",", " ">>
         \o join(<<" ">>, words(split_1_after(namestring, <<",">>)))
    ELSE Bind([w \in {words(namestring)} |->
                w[Len(w)] \o <<",", " ">>
                \o join(<<" ">>, [i \in 1..(Len(w) - 1) |->
                                    strip(replace(w[i], <<".">>, <<".", " ">>))])])

\* btxc.author(r); r["author"]: the names of the author field, split at " and "
\* (names that are blank are skipped)
RECURSIVE getnames(_)
getnames(names) ==
    Bind([n \in {names} |->
        IF n = << >> THEN << >>
        ELSE Bind([namestring \in {strip(Head(n))} |->
                    IF namestring = << >> THEN << >> ELSE <<getname(namestring)>>])
             \o getnames(Tail(n))])

author_names(author) == getnames(split(replace(author, <<"\n">>, <<" ">>), STR_and))

\* the leading words of a "von Last" part that make up the von part: the words
\* up to the last one that starts in lower case, the final word left for Last
VonLength(w) ==
    Bind([low \in {{i \in 1..(Len(w) - 1) : IsLower(w[i][1])}} |->
        IF low = {} THEN 0 ELSE CHOOSE i \in low : \A j \in low : j <= i])

\* btxc.splitname(name) for "von Last, First" and "von Last, Jr, First"
splitname(name) ==
    Bind([parts \in {split(name, <<",">>)} |->
        Bind([vl \in {words(parts[1])} |->
            Bind([k \in {VonLength(vl)} |->
                [first |-> words(parts[Len(parts)]),
                 von   |-> SubSeq(vl, 1, k),
                 last  |-> SubSeq(vl, k + 1, Len(vl)),
                 jr    |-> IF Len(parts) > 2 THEN words(parts[2]) ELSE << >>]])])])

\* lines 519-528: a given name is abbreviatable when it is longer than two
\* characters or its second character is one of ".:;"
RECURSIVE abbreviate(_)
abbreviate(first) ==
    IF first = << >> THEN Return(<< >>)
    ELSE Bind([f \in {Head(first)} |->
            Bind([rest \in {abbreviate(Tail(first))} |->
                IF Len(f) > 2
                THEN IF rest.err # "none" THEN rest ELSE Return(<<f[1], ".">> \o rest.val)
                ELSE IF Len(f) < 2 THEN Raise("IndexError")
                ELSE IF f[2] \in {".", ":", ";"}
                THEN IF rest.err # "none" THEN rest ELSE Return(<<f[1], ".">> \o rest.val)
                ELSE rest])])

\* lines 513-542: one name, formatted
format_name(name, abbreviate_first) ==
    Bind([sp \in {splitname(name)} |->
        Bind([first \in {IF abbreviate_first THEN abbreviate(sp.first)
                         ELSE Return(join(<<" ">>, sp.first))} |->
            LET last == join(<<" ">>, sp.last)
                von == join(<<" ">>, sp.von)
                jr == join(<<" ">>, sp.jr)
            IN  IF first.err # "none" THEN first
                ELSE Return(title(first.val)
                            \o (IF Len(von) > 0 THEN <<" ">> \o lower(von) ELSE << >>)
                            \o <<" ">> \o last
                            \o (IF Len(jr) > 0 THEN <<" ">> \o lower(jr) ELSE << >>))])])

\* lines 511-542: the formatted names, or the exception of the first name that
\* cannot be formatted
format_names(names, abbreviate_first) ==
    LET a == [i \in 1..Len(names) |-> format_name(names[i], abbreviate_first)]
    IN  IF \E i \in 1..Len(names) : a[i].err # "none"
        THEN a[CHOOSE i \in 1..Len(names) :
                   a[i].err # "none" /\ \A j \in 1..(i - 1) : a[j].err = "none"]
        ELSE Return([i \in 1..Len(names) |-> a[i].val])

\* ", " + a for every a of authors
RECURSIVE comma_each(_)
comma_each(authors) ==
    IF authors = << >> THEN << >> ELSE <<",", " ">> \o Head(authors) \o comma_each(Tail(authors))

\* lines 544-555 with a comma before the final "and" as well
one_liner_oxford(authors, et_al_at) ==
    IF Len(authors) > et_al_at THEN Return(authors[1] \o STR_et_al)
    ELSE IF Len(authors) = 1 THEN Return(authors[1])
    ELSE IF Len(authors) = 0 THEN Raise("IndexError")
    ELSE Return(authors[1] \o comma_each(SubSeq(authors, 2, Len(authors) - 1))
                \o <<",">> \o STR_and \o authors[Len(authors)])

\* lines 544-555: the one-liner of the formatted names
one_liner(authors, et_al_at) ==
    IF Len(authors) > et_al_at THEN Return(authors[1] \o STR_et_al)
    ELSE IF Len(authors) = 1 THEN Return(authors[1])
    ELSE IF Len(authors) = 0 THEN Raise("IndexError")
    ELSE Return(authors[1] \o comma_each(SubSeq(authors, 2, Len(authors) - 1))
                \o STR_and \o authors[Len(authors)])

\* format_authors(e, abbreviate_first, et_al_at)
format_authors(e, abbreviate_first, et_al_at) ==
    IF "author" \notin DOMAIN e \/ e["author"] = << >> THEN Raise("KeyError")
    ELSE Bind([names \in {author_names(e["author"])} |->
            Bind([authors \in {format_names(names, abbreviate_first)} |->
                IF authors.err # "none" THEN authors
                ELSE Bind([res \in {one_liner(authors.val, et_al_at)} |->
                        IF res.err # "none" THEN res ELSE Return(cleanup(res.val))])])])

\* the author fields of up to n names of NameValues
RECURSIVE AuthorFields(_)
AuthorFields(n) ==
    IF n = 0 THEN {}
    ELSE NameValues \cup AuthorFields(n - 1)
         \cup {a \o STR_and \o b : a \in AuthorFields(n - 1), b \in NameValues}

InitAuthors ==
    /\ pc = "start"
    /\ cfg = DefaultSettings
    /\ db = << >>
    /\ key = << >>
    /\ entries = << >>
    /\ entry \in {[ID |-> "k1", author |-> a] : a \in AuthorFields(MaxAuthors)}
    /\ kwargs = << >>
    /\ ret = Return(<< >>)
    /\ calls = 0

\* a call format_authors(entry, abbreviate_first, et_al_at)
FormatAuthors ==
    /\ pc = "start"
    /\ \E abbreviate_first \in BOOLEAN, et_al_at \in {SmallEtAlAt, DefaultEtAlAt} :
        LET r == format_authors(entry, abbreviate_first, et_al_at)
        IN  ret' = [err |-> r.err, val |-> r.val,
                    abbreviate_first |-> abbreviate_first, et_al_at |-> et_al_at]
    /\ pc' = "format_authors"
    /\ UNCHANGED <<cfg, db, key, entries, entry, kwargs, calls>>

NextAuthors == FormatAuthors

SpecAuthors == InitAuthors /\ [][NextAuthors]_vars

----------------------------------------------------------------------------
(* The field values of the entries the model renders *)

\* 'Smith, John and Doe, Jane'
AUTHOR_two ==
    <<"S","m","i","t","h",","," ","J","o","h","n"," ","a","n","d"," ","D","o","e",","," ",
    "J","a","n","e">>
\* 'Spitzner, Franz Paul'
AUTHOR_one ==
    <<"S","p","i","t","z","n","e","r",","," ","F","r","a","n","z"," ","P","a","u","l">>
\* '{MR}. Estimator, a "toolbox"'
TITLE_mr ==
    <<"{","M","R","}","."," ","E","s","t","i","m","a","t","o","r",","," ","a"," ","\"","t",
    "o","o","l","b","o","x","\"">>
\* 'Two Perspectives'
TITLE_msc ==
    <<"T","w","o"," ","P","e","r","s","p","e","c","t","i","v","e","s">>
\* 'https://www.physik.uni-leipzig.de/~spitzner/p.pdf'
URL_msc ==
    <<"h","t","t","p","s",":","/","/","w","w","w",".","p","h","y","s","i","k",".","u","n",
    "i","-","l","e","i","p","z","i","g",".","d","e","/","~","s","p","i","t","z","n","e","r",
    "/","p",".","p","d","f">>
\* 'Phys. Rev. E'
JOURNAL_pre ==
    <<"P","h","y","s","."," ","R","e","v","."," ","E">>
\* 'Master Thesis, Leipzig University'
JOURNAL_msc ==
    <<"M","a","s","t","e","r"," ","T","h","e","s","i","s",","," ","L","e","i","p","z","i",
    "g"," ","U","n","i","v","e","r","s","i","t","y">>
\* '96'
VOLUME_96 ==
    <<"9","6">>
\* '012134'
PAGES_1 ==
    <<"0","1","2","1","3","4">>
\* '2017'
YEAR_2017 ==
    <<"2","0","1","7">>
\* 'submitted'
YEAR_submitted ==
    <<"s","u","b","m","i","t","t","e","d">>
\* 'We study {"x"}.'
ABSTRACT_a ==
    <<"W","e"," ","s","t","u","d","y"," ","{","\"","x","\"","}",".">>
\* '1707.02118'
ARXIV_ID ==
    <<"1","7","0","7",".","0","2","1","1","8">>

\* 'https://gitlab.com/x/y'
URL_badge_gitlab ==
    <<"h","t","t","p","s",":","/","/","g","i","t","l","a","b",".","c","o","m","/","x","/",
    "y">>

BADGE_github == [desc |-> STR_GitHub, url |-> URL_badge_github]
BADGE_code == [desc |-> DESC_Code, url |-> URL_badge_gitlab]

\* the values a field takes in the model besides the empty one
FieldValues ==
    [author   |-> {AUTHOR_two, AUTHOR_one},
     title    |-> {TITLE_mr},
     url      |-> {URL_journal},
     journal  |-> {JOURNAL_pre},
     volume   |-> {VOLUME_96},
     pages    |-> {PAGES_1},
     year     |-> {YEAR_2017, YEAR_submitted},
     abstract |-> {ABSTRACT_a},
     doi      |-> {DOI_journal},
     badges   |-> {<<BADGE_github>>, <<BADGE_code, BADGE_github>>}]

OptionalFields == DOMAIN FieldValues

----------------------------------------------------------------------------
(* entry_to_html *)

\* the pieces of a run of steps that all return, joined by halves
RECURSIVE pieces_of(_)
pieces_of(steps) ==
    Bind([s \in {steps} |->
        IF s = << >> THEN << >>
        ELSE IF Len(s) = 1 THEN s[1].val
        ELSE pieces_of(SubSeq(s, 1, Len(s) \div 2))
             \o pieces_of(SubSeq(s, Len(s) \div 2 + 1, Len(s)))])

\* the pieces of a run of steps, or the exception of the first step that raises
chain(steps) ==
    Bind([s \in {steps} |->
        IF \E i \in 1..Len(s) : s[i].err # "none"
        THEN s[CHOOSE i \in 1..Len(s) : s[i].err # "none" /\ \A j \in 1..(i - 1) : s[j].err = "none"]
        ELSE Return(pieces_of(s))])

\* `f in entry and len(entry[f]) > 0`
present(e, f) == f \in DOMAIN e /\ Len(e[f]) > 0

\* lines 224-230
html_authors(e) ==
    IF present(e, "author")
    THEN Bind([a \in {format_authors(e, TRUE, DefaultEtAlAt)} |->
                IF a.err # "none" THEN a
                ELSE Return(<<"<div class=\"pub_author\">\n", str(a.val), "\n</div>\n">>)])
    ELSE Return(<< >>)

\* lines 232-244
html_title(e) ==
    IF present(e, "title")
    THEN LET url_is_okay == present(e, "url")
         IN  Return(<<"<" \o (IF url_is_okay THEN "a" ELSE "div") \o " class=\"pub_title\"\n">>
                    \o (IF url_is_okay THEN <<"href=\"" \o str(e["url"]) \o "\"\n">> ELSE << >>)
                    \o <<">\n",
                         str(cleanup(e["title"])),
                         "\n</" \o (IF url_is_okay THEN "a" ELSE "div") \o ">\n">>)
    ELSE Return(<< >>)

\* lines 250-259
html_journal(e) ==
    IF present(e, "journal")
    THEN Return(<<"<span class=\"pub_journal\">\n", str(e["journal"])>>
                \o (IF present(e, "volume") THEN <<" " \o str(e["volume"])>> ELSE << >>)
                \o (IF present(e, "pages") THEN <<", " \o str(e["pages"])>> ELSE << >>)
                \o <<"\n</span>\n">>)
    ELSE Return(<< >>)

\* lines 261-266
html_year(e) ==
    IF present(e, "year")
    THEN Return(<<"<span class=\"pub_year\">\n", "(" \o str(e["year"]) \o ")", "\n</span>\n">>)
    ELSE Return(<< >>)

\* the test of lines 273 and 328
abstract_shown(e, c) == c.show_abstracts /\ present(e, "abstract")

\* lines 272-294
html_abstract_toggle(e, c) ==
    IF abstract_shown(e, c)
    THEN IF c.use_bootstrap_button_for_abstract
         THEN Return(<<"<span class=\"pub_badge\">\n",
                       "<span type=\"button\" class=\"btn\" ",
                       "data-toggle=\"collapse\" aria-expanded=\"false\" ",
                       "data-target=\"#abstract_" \o e["ID"] \o "\">",
                       "Toggle abstract",
                       "</span>",
                       "</span>\n">>)
         ELSE Return(<<"<span class=\"pub_badge\">\n",
                       "[",
                       "<span class=\"fake_a pub_badge_link\" ",
                       "data-toggle=\"collapse\" aria-expanded=\"false\" ",
                       "data-target=\"#abstract_" \o e["ID"] \o "\">",
                       "Abstract",
                       "</span>",
                       "]\n",
                       "</span>\n">>)
    ELSE Return(<< >>)

\* lines 297-303
html_arxiv_badge(e, c) ==
    IF c.show_arxiv_badge /\ "arxiv_org_id" \in DOMAIN e
    THEN format_badge([desc |-> STR_arXiv, url |-> STR_arxiv_prefix \o e["arxiv_org_id"]],
                      c.use_shieldsio_for_badges)
    ELSE Return(<< >>)

\* lines 305-310
html_badges(e, c) ==
    IF present(e, "badges")
    THEN chain([i \in 1..Len(e["badges"]) |->
                    badge_of_entry(e["badges"][i], c.use_shieldsio_for_badges)])
    ELSE Return(<< >>)

\* lines 312-323
html_altmetric(e, c) ==
    IF c.show_altmetric /\ ("arxiv_org_id" \in DOMAIN e \/ "doi" \in DOMAIN e)
    THEN Return(<<"<span data-badge-type=\"2\" ",
                  "data-hide-no-mentions=\"true\" ",
                  "class=\"altmetric-embed\" ",
                  IF "arxiv_org_id" \in DOMAIN e
                  THEN "data-arxiv-id=\"" \o str(e["arxiv_org_id"]) \o "\""
                  ELSE "data-doi=\"" \o str(e["doi"]) \o "\"",
                  " ></span>\n">>)
    ELSE Return(<< >>)

\* lines 327-333
html_abstract(e, c) ==
    IF abstract_shown(e, c)
    THEN Return(<<"<div class=\"collapse\" id=\"abstract_" \o e["ID"] \o "\">\n",
                  "<div class=\"pub_abstract\">",
                  str(cleanup(e["abstract"])),
                  "</div>\n",
                  "</div>">>)
    ELSE Return(<< >>)

\* entry_to_html(e) under the settings c
entry_to_html(e, c) ==
    IF "ID" \notin DOMAIN e THEN Raise("KeyError")
    ELSE chain(<<Return(<<"<li>\n">>),
                 html_authors(e),
                 html_title(e),
                 Return(<<"<div class=\"pub_journal_group\">\n">>),
                 html_journal(e),
                 html_year(e),
                 Return(<<"<br class=\"d-block d-lg-block\">">>),
                 html_abstract_toggle(e, c),
                 html_arxiv_badge(e, c),
                 html_badges(e, c),
                 html_altmetric(e, c),
                 Return(<<"</div>\n">>),
                 html_abstract(e, c),
                 Return(<<"</li>\n\n">>)>>)

----------------------------------------------------------------------------
(* Rendering one entry: the entries of main, as customized *)

\* customizations of one entry
MaxEdits == 1

\* every choice of the five settings
Settings ==
    [{"show_abstracts", "show_altmetric", "show_arxiv_badge", "use_shieldsio_for_badges",
      "use_bootstrap_button_for_abstract"} -> BOOLEAN]

\* an entry with every field, as the resolver leaves it
FullEntry ==
    [ID |-> "k1", author |-> AUTHOR_two, title |-> TITLE_mr, url |-> URL_journal,
     journal |-> JOURNAL_pre, volume |-> VOLUME_96, pages |-> PAGES_1, year |-> YEAR_2017,
     abstract |-> ABSTRACT_a, doi |-> DOI_journal, badges |-> <<BADGE_github>>,
     arxiv_org_id |-> ARXIV_ID]

MinimalEntry == [ID |-> "k1"]

\* the first of the entries main builds from scratch (lines 149-155, the title
\* and the url shortened)
OtherEntry ==
    [ID |-> "msc_spitzner", author |-> AUTHOR_one, title |-> TITLE_msc,
     journal |-> JOURNAL_msc, url |-> URL_msc]

\* e without the field f
DictDel(e, f) == [g \in DOMAIN e \ {f} |-> e[g]]

BaseEntries ==
    {FullEntry, MinimalEntry, OtherEntry}
    \cup {DictDel(FullEntry, f) : f \in OptionalFields \cup {"arxiv_org_id"}}
    \cup UNION {{DictSet(MinimalEntry, f, v) : v \in FieldValues[f]} : f \in OptionalFields}
    \cup {DictSet(MinimalEntry, "arxiv_org_id", ARXIV_ID)}

InitRender ==
    /\ pc = "start"
    /\ cfg \in Settings
    /\ db = << >>
    /\ key = << >>
    /\ entries = << >>
    /\ entry \in BaseEntries
    /\ kwargs = << >>
    /\ ret = Return(<< >>)
    /\ calls = 0

\* entry[f] = v, as main customizes an entry (lines 116-139); v may be empty
Customize ==
    /\ pc = "start"
    /\ calls < MaxEdits
    /\ \E f \in OptionalFields :
        \E v \in FieldValues[f] \cup {<< >>} :
            entry' = DictSet(entry, f, v)
    /\ calls' = calls + 1
    /\ UNCHANGED <<pc, cfg, db, key, entries, kwargs, ret>>

\* a call entry_to_html(entry)
EntryToHtml ==
    /\ pc = "start"
    /\ ret' = entry_to_html(entry, cfg)
    /\ pc' = "entry_to_html"
    /\ UNCHANGED <<cfg, db, key, entries, entry, kwargs, calls>>

NextRender == Customize \/ EntryToHtml

SpecRender == InitRender /\ [][NextRender]_vars

----------------------------------------------------------------------------
(* get_entry_for_citekey and main *)

\* entries in the database
MaxDb == 3

\* citation keys in a request
MaxKeys == 2

\* The entry records of db.entries are objects that `entries` shares with the
\* database: a reference to one is its index in db. What get_entry_for_citekey
\* returns is either one entry record (kind "entry") or a dict from citation
\* keys to entry records (kind "dict").

\* the entries of the bibtex file: k1 twice, k2 without an author, no kx
DbPool ==
    {[ID |-> "k1", author |-> AUTHOR_two, title |-> TITLE_mr, journal |-> JOURNAL_pre,
      year |-> YEAR_2017, eprint |-> EPRINT_A, eprinttype |-> TYPE_mixed, doi |-> DOI_arxiv],
     [ID |-> "k1", title |-> TITLE_msc],
     [ID |-> "k2", title |-> TITLE_msc, doi |-> DOI_journal, url |-> URL_biorxiv],
     [ID |-> "k3", author |-> AUTHOR_one, title |-> TITLE_mr, url |-> URL_arxiv,
      abstract |-> ABSTRACT_a]}

CiteKeys == {"k1", "k2", "k3", "kx"}

\* the sequences over S of length at most n
RECURSIVE SeqsUpTo(_, _)
SeqsUpTo(S, n) ==
    IF n = 0 THEN {<< >>}
    ELSE SeqsUpTo(S, n - 1) \cup {Append(s, x) : s \in SeqsUpTo(S, n - 1), x \in S}

\* a request: one citation key, or a list of them
Requests ==
    {[is_list |-> FALSE, keys |-> <<k>>] : k \in CiteKeys}
    \cup {[is_list |-> TRUE, keys |-> ks] : ks \in SeqsUpTo(CiteKeys, MaxKeys)}

\* the keys of a request, lines 375-378
keys_of(request) == {request.keys[i] : i \in 1..Len(request.keys)}

\* lines 380-383: for every requested ID of the database, the last entry with it
selected_refs(d, request) ==
    LET ids == {d[i]["ID"] : i \in {j \in 1..Len(d) : "ID" \in DOMAIN d[j]}} \cap keys_of(request)
    IN  [id \in ids |-> CHOOSE i \in 1..Len(d) :
                            /\ "ID" \in DOMAIN d[i]
                            /\ d[i]["ID"] = id
                            /\ \A j \in (i + 1)..Len(d) : ~("ID" \in DOMAIN d[j] /\ d[j]["ID"] = id)]

\* lines 385-386: the selected entries, the arXiv id added to each
resolved_db(d, refs) ==
    [i \in 1..Len(d) |->
        IF \E id \in DOMAIN refs : refs[id] = i
        THEN find_arxiv_id_in_entry(d[i], TRUE).entry
        ELSE d[i]]

\* lines 388-390: one selected entry is returned as it is, any other number of
\* them as the dict
result_of(request, refs) ==
    IF Cardinality(DOMAIN refs) = 1
    THEN [kind |-> "entry", ref |-> refs[CHOOSE id \in DOMAIN refs : TRUE], refs |-> << >>]
    ELSE [kind |-> "dict", ref |-> 0, refs |-> refs]

\* get_entry_for_citekey(db, key): the database it leaves and what it returns
get_entry_for_citekey(d, request) ==
    LET refs == selected_refs(d, request)
    IN  [db |-> resolved_db(d, refs), ret |-> result_of(request, refs)]

\* the Python dict that a result is
AsDict(d, result) ==
    IF result.kind = "entry" THEN d[result.ref]
    ELSE [id \in DOMAIN result.refs |-> d[result.refs[id]]]

\* the customizations of main: lines 116-117 and 121-123
MainEdits ==
    {<<"year", YEAR_submitted>>, <<"journal", << >>>>, <<"badges", <<BADGE_github>>>>}

Init ==
    /\ pc = "load"
    /\ cfg = DefaultSettings
    /\ db \in SeqsUpTo(DbPool, MaxDb)
    /\ key \in Requests
    /\ entries = << >>
    /\ entry = << >>
    /\ kwargs = << >>
    /\ ret = Return(<< >>)
    /\ calls = 0

\* line 109: entries = get_entry_for_citekey(db, key)
Select ==
    /\ pc = "load"
    /\ LET r == get_entry_for_citekey(db, key)
       IN  /\ db' = r.db
           /\ entries' = r.ret
    /\ pc' = "selected"
    /\ UNCHANGED <<cfg, key, entry, kwargs, ret, calls>>

\* main hands a list of keys (line 109) and goes on to use the dict it expects:
\* entries[k] is the entry of k when the dict has k, and raises KeyError when it
\* has not, which is also the case when `entries` is one entry record, whose
\* keys are field names
Has(k) == k \in DOMAIN AsDict(db, entries)

\* entries[k][f] = v for a requested key k, as in lines 116-139: the entry
\* record, which the database shares, is changed
MainCustomize ==
    /\ pc = "selected"
    /\ key.is_list
    /\ calls < MaxEdits
    /\ \E k \in keys_of(key), edit \in MainEdits :
        IF Has(k)
        THEN /\ db' = [db EXCEPT ![entries.refs[k]] = DictSet(@, edit[1], edit[2])]
             /\ pc' = pc
             /\ ret' = ret
        ELSE /\ pc' = "raised"
             /\ ret' = Raise("KeyError")
             /\ db' = db
    /\ calls' = calls + 1
    /\ UNCHANGED <<cfg, key, entries, entry, kwargs>>

\* lines 183-184, one turn of the loop: html += entry_to_html(entries[key]) for
\* the next requested key; ret.val holds the list items made so far
MainRender ==
    /\ pc \in {"selected", "rendering"}
    /\ key.is_list
    /\ Len(ret.val) < Len(key.keys)
    /\ LET k == key.keys[Len(ret.val) + 1]
       IN  IF Has(k)
           THEN LET item == entry_to_html(db[entries.refs[k]], cfg)
                IN  IF item.err = "none"
                    THEN /\ ret' = Return(Append(ret.val, text(item.val)))
                         /\ pc' = "rendering"
                    ELSE /\ ret' = item
                         /\ pc' = "raised"
           ELSE /\ ret' = Raise("KeyError")
                /\ pc' = "raised"
    /\ UNCHANGED <<cfg, db, key, entries, entry, kwargs, calls>>

\* line 185: the list is closed after the last requested key
MainDone ==
    /\ pc \in {"selected", "rendering"}
    /\ key.is_list
    /\ Len(ret.val) = Len(key.keys)
    /\ pc' = "done"
    /\ UNCHANGED <<cfg, db, key, entries, entry, kwargs, ret, calls>>

Next == Select \/ MainCustomize \/ MainRender \/ MainDone

Spec == Init /\ [][Next]_vars

----------------------------------------------------------------------------
(* Presence-gated rendering *)

\* entry_to_html has returned the pieces of a list item
Rendered == pc = "entry_to_html" /\ ret.err = "none"

\* the pieces of the returned fragment
Pieces == {ret.val[i] : i \in 1..Len(ret.val)}

\* how many of the returned pieces are p
Count(p) == Cardinality({i \in 1..Len(ret.val) : ret.val[i] = p})

\* the pieces that only a field f of the entry brings into the fragment
MarkupOf(f) ==
    CASE f = "author" -> {"<div class=\"pub_author\">\n"}
      [] f = "title" -> {"<a class=\"pub_title\"\n", "<div class=\"pub_title\"\n"}
      [] f = "url" ->
            {"<a class=\"pub_title\"\n", "\n</a>\n"}
            \cup {"href=\"" \o str(v) \o "\"\n" : v \in {URL_journal, URL_msc, << >>}}
      [] f = "journal" -> {"<span class=\"pub_journal\">\n"}
      [] f = "volume" -> {" " \o str(v) : v \in {VOLUME_96, << >>}}
      [] f = "pages" -> {", " \o str(v) : v \in {PAGES_1, << >>}}
      [] f = "year" -> {"<span class=\"pub_year\">\n"}
      [] f = "abstract" ->
            {"Toggle abstract", "Abstract", "<div class=\"pub_abstract\">",
             "data-target=\"#abstract_" \o entry["ID"] \o "\">",
             "<div class=\"collapse\" id=\"abstract_" \o entry["ID"] \o "\">\n"}
      [] f = "doi" -> {"data-doi=\"" \o str(v) \o "\"" : v \in {DOI_journal, << >>}}
      [] f = "badges" -> {}

\* the badges of the fragment: all of them come from the badges field, but for
\* the one that shows a resolved arxiv_org_id
BadgeLinks == Count("<a class=\"pub_badge_link\"")
ArxivBadges == IF cfg.show_arxiv_badge /\ "arxiv_org_id" \in DOMAIN entry THEN 1 ELSE 0

\* the fragment holds nothing that the field f brings
NoMarkupOf(f) ==
    /\ Pieces \cap MarkupOf(f) = {}
    /\ f = "badges" => BadgeLinks = ArxivBadges

\* C1: a rendered fragment holds no markup of any optional field that the entry
\* lacks or holds empty (author, title, url, journal, volume, pages, year,
\* abstract, doi, badges), whatever the other fields are.
C1_PresenceGated ==
    Rendered => \A f \in OptionalFields : ~present(entry, f) => NoMarkupOf(f)

----------------------------------------------------------------------------
(* Identifier resolution *)

\* the last call of find_arxiv_id_in_entry has returned
Resolved == pc = "returned"

\* C2: an entry with an eprint and an eprinttype equal to "arxiv" ignoring case
\* resolves to the eprint value verbatim, and that value is what arxiv_org_id
\* holds after a call that adds to the entry, whatever doi and url say.
C2_EprintFirst ==
    (Resolved /\ HasArxivEprint(ret.before)) =>
        /\ ret.val = Some(ret.before["eprint"])
        /\ ret.add_to_entry =>
            /\ "arxiv_org_id" \in DOMAIN entry
            /\ entry["arxiv_org_id"] = ret.before["eprint"]

\* an arXiv eprint (type written "arXiv") beside a doi and a url that name
\* other identifiers, resolved and stored
C2_Witness ==
    /\ Resolved
    /\ ret.add_to_entry
    /\ HasArxivEprint(ret.before)
    /\ ret.before["eprinttype"] = TYPE_mixed
    /\ ret.before["eprint"] = EPRINT_A
    /\ HasArxivDoi(ret.before)
    /\ HasArxivUrl(ret.before)
    /\ split_1_after(ret.before["doi"], STR_arXivDot) # EPRINT_A
    /\ split_1_after(ret.before["url"], STR_arxiv_abs) # EPRINT_A
    /\ entry["arxiv_org_id"] = EPRINT_A

\* C3: without an arXiv eprint pair, a doi containing "arXiv." resolves to the
\* part of the doi after the first "arXiv.", also when the url holds
\* "arxiv.org/abs/" followed by another identifier.
C3_DoiBeforeUrl ==
    (Resolved /\ ~HasArxivEprint(ret.before) /\ HasArxivDoi(ret.before)) =>
        ret.val = Some(split_1_after(ret.before["doi"], STR_arXivDot))

\* C4: when none of the three rules applies the call raises nothing, returns
\* None and leaves the entry as it was, without an arxiv_org_id.
C4_UnresolvedIsAbsence ==
    (/\ Resolved
     /\ ~HasArxivEprint(ret.before)
     /\ ~HasArxivDoi(ret.before)
     /\ ~HasArxivUrl(ret.before)) =>
        /\ ret.err = "none"
        /\ ret.val = None
        /\ entry = ret.before
        /\ "arxiv_org_id" \notin DOMAIN entry

\* the biorxiv url, beside a journal doi and a non-arXiv eprint, left unresolved
\* by a call that would have added the id
C4_Witness ==
    /\ Resolved
    /\ ret.add_to_entry
    /\ "eprint" \in DOMAIN ret.before
    /\ "eprinttype" \in DOMAIN ret.before
    /\ ret.before["eprinttype"] = TYPE_pubmed
    /\ "doi" \in DOMAIN ret.before
    /\ ret.before["doi"] = DOI_lowercase
    /\ "url" \in DOMAIN ret.before
    /\ ret.before["url"] = URL_biorxiv
    /\ ret.val = None
    /\ "arxiv_org_id" \notin DOMAIN entry

----------------------------------------------------------------------------
(* Selection *)

\* the requested keys that the database has an entry for
MatchedKeys ==
    {k \in keys_of(key) : \E i \in 1..Len(db) : "ID" \in DOMAIN db[i] /\ db[i]["ID"] = k}

\* C5: the shape of what get_entry_for_citekey returns follows the request: for
\* one key that the database has, the entry record of that key; for a list of
\* keys, a dict keyed by ID that holds every entry of the database whose ID is
\* in the list, however many there are.
C5_ShapeFollowsRequest ==
    pc = "selected" =>
        /\ (~key.is_list /\ MatchedKeys # {}) =>
                /\ entries.kind = "entry"
                /\ db[entries.ref]["ID"] = key.keys[1]
        /\ key.is_list =>
                /\ entries.kind = "dict"
                /\ DOMAIN entries.refs = MatchedKeys
                /\ \A k \in MatchedKeys : db[entries.refs[k]]["ID"] = k

\* C6: a requested key that the database has no entry for makes
\* get_entry_for_citekey fail: the call does not return.
C6_MissingKeyFailsAtSelection ==
    pc = "selected" => MatchedKeys = keys_of(key)

----------------------------------------------------------------------------
(* Badges *)

\* a badge was rendered, by itself or as an element of entry['badges'], in
\* image mode
ImageBadgeCall ==
    pc \in {"format_badge", "badge_of_entry"} /\ cfg.use_shieldsio_for_badges

\* the text of an image badge that links to url and shows the image src
ImageBadge(url, src) ==
    "<span class=\"pub_badge\">\n<a class=\"pub_badge_link\"href=\"" \o str(url)
    \o "\"><img src=\"" \o src \o "\"></img></a>\n</span>\n"

\* url without "https://arxiv.org/abs/" at its start
WithoutPrefix(url) ==
    IF IsAt(url, STR_arxiv_prefix, 1)
    THEN SubSeq(url, Len(STR_arxiv_prefix) + 1, Len(url))
    ELSE url

\* the description of a badge, under either name
DescriptionOf(kw) == IF "desc" \in DOMAIN kw THEN kw["desc"] ELSE kw["description"]

\* C7 as it reads: a badge of a description, under `description` or `desc`, and
\* a url, in image mode, renders without error; described as arXiv (any case)
\* it shows arXiv, the url without its prefix "https://arxiv.org/abs/" and
\* b31b1b; described as GitHub (any case) it shows "", GitHub, 066da5 and the
\* logo github.
C7_DefaultsUnderEitherName ==
    (/\ ImageBadgeCall
     /\ (DOMAIN kwargs = {"desc", "url"} \/ DOMAIN kwargs = {"description", "url"})) =>
        /\ ret.err = "none"
        /\ lower(DescriptionOf(kwargs)) = STR_arxiv =>
                text(ret.val) =
                    ImageBadge(kwargs["url"],
                               "https://img.shields.io/badge/arXiv-"
                               \o str(WithoutPrefix(kwargs["url"])) \o "-b31b1b")
        /\ lower(DescriptionOf(kwargs)) = STR_github =>
                text(ret.val) =
                    ImageBadge(kwargs["url"],
                               "https://img.shields.io/badge/-GitHub-066da5?logo=github")

\* C7, amended: a badge of exactly `desc` and `url`, in image mode, renders
\* without error; described as arXiv (any case) it shows arXiv, the url with
\* every "https://arxiv.org/abs/" in it removed and b31b1b; described as GitHub
\* (any case) it shows "", GitHub, 066da5 and the logo github.
C7_DefaultsUnderDesc ==
    (ImageBadgeCall /\ DOMAIN kwargs = {"desc", "url"}) =>
        /\ ret.err = "none"
        /\ lower(kwargs["desc"]) = STR_arxiv =>
                text(ret.val) =
                    ImageBadge(kwargs["url"],
                               "https://img.shields.io/badge/arXiv-"
                               \o str(replace(kwargs["url"], STR_arxiv_prefix, << >>))
                               \o "-b31b1b")
        /\ lower(kwargs["desc"]) = STR_github =>
                text(ret.val) =
                    ImageBadge(kwargs["url"],
                               "https://img.shields.io/badge/-GitHub-066da5?logo=github")

\* the badge {desc: "ARXIV", url: "https://arxiv.org/abs/1234.5678"} rendered
\* as an element of entry['badges']
C7_Witness ==
    /\ pc = "badge_of_entry"
    /\ cfg.use_shieldsio_for_badges
    /\ kwargs = [desc |-> DESC_ARXIV, url |-> URL_badge_arxiv]
    /\ ret.err = "none"
    /\ text(ret.val) =
            "<span class=\"pub_badge\">\n<a class=\"pub_badge_link\""
            \o "href=\"https://arxiv.org/abs/1234.5678\">"
            \o "<img src=\"https://img.shields.io/badge/arXiv-1234.5678-b31b1b\"></img>"
            \o "</a>\n</span>\n"

\* C8: a badge with desc, url and its own left and right (and color, logo,
\* logoColor or not), in image mode, renders without error as a link to url
\* around the image that shieldio makes of exactly those five values.
C8_ExplicitStyling ==
    (/\ ImageBadgeCall
     /\ {"desc", "url", "left", "right"} \subseteq DOMAIN kwargs
     /\ "description" \notin DOMAIN kwargs) =>
        /\ ret.err = "none"
        /\ text(ret.val) =
                ImageBadge(kwargs["url"],
                           text(shieldio(kwargs["left"], kwargs["right"], Get(kwargs, "color"),
                                         Get(kwargs, "logo"), Get(kwargs, "logoColor"))))

----------------------------------------------------------------------------
(* Author lines *)

\* format_authors was called with abbreviation and returned a line
AuthorLine == pc = "format_authors" /\ ret.abbreviate_first /\ ret.err = "none"

\* the names of the author field, each formatted by itself
FormattedNames == format_names(author_names(entry["author"]), TRUE).val

\* the line that the joining rule makes of the formatted names a: the first
\* and "et al." above the threshold, else the names with ", " between them and
\* " and " before the last
JoinedLine(a, et_al_at) ==
    IF Len(a) > et_al_at THEN a[1] \o STR_et_al
    ELSE IF Len(a) = 1 THEN a[1]
    ELSE IF Len(a) = 2 THEN a[1] \o STR_and \o a[2]
    ELSE join(<<",", " ">>, SubSeq(a, 1, Len(a) - 1)) \o STR_and \o a[Len(a)]

Unresolvable(f) == Len(f) <= 2 /\ f[Len(f)] \notin {".", ":", ";"}

\* the author field holds such a given name
HasUnresolvableToken ==
    LET names == author_names(entry["author"])
    IN  \E i \in 1..Len(names) :
            LET first == splitname(names[i]).first
            IN  \E j \in 1..Len(first) : Unresolvable(first[j])

\* C10: an author field with a given name of at most two characters that does
\* not end in a period, a colon or a semicolon still gets its author line:
\* format_authors, abbreviating, returns and does not raise.
C10_ShortTokenNeverAborts ==
    (pc = "format_authors" /\ ret.abbreviate_first /\ HasUnresolvableToken) =>
        ret.err = "none"


----------------------------------------------------------------------------
(* The order of the fragments of a list item *)

\* the positions of the returned pieces that are among P
PositionsOf(P) == {i \in 1..Len(ret.val) : ret.val[i] \in P}

\* every piece of P that the fragment holds comes before every piece of Q
AllBefore(P, Q) == \A i \in PositionsOf(P), j \in PositionsOf(Q) : i < j

\* the piece that links a badge to url
BadgeHref(url) == "href=\"" \o str(url) \o "\">"

\* the links of the badges field, in list order
ListedBadgeHrefs ==
    IF "badges" \in DOMAIN entry
    THEN [i \in 1..Len(entry["badges"]) |-> BadgeHref(entry["badges"][i]["url"])]
    ELSE << >>

\* the link of the badge that shows a resolved arxiv_org_id
ArxivBadgeHrefs ==
    IF "arxiv_org_id" \in DOMAIN entry
    THEN {BadgeHref(STR_arxiv_prefix \o entry["arxiv_org_id"])}
    ELSE {}

\* pieces that mark each fragment, the fragments in the order of the claim
FragmentMarks ==
    <<{"<div class=\"pub_author\">\n"},
      {"<a class=\"pub_title\"\n", "<div class=\"pub_title\"\n"},
      {"<span class=\"pub_journal\">\n"},
      {"<span class=\"pub_year\">\n"},
      {"Toggle abstract", "Abstract"},
      {ListedBadgeHrefs[i] : i \in 1..Len(ListedBadgeHrefs)},
      ArxivBadgeHrefs,
      {"class=\"altmetric-embed\" "},
      {"<div class=\"pub_abstract\">"}>>

\* the fragments stand in the order of FragmentMarks
InClaimedOrder ==
    \A k, l \in 1..Len(FragmentMarks) :
        k < l => AllBefore(FragmentMarks[k], FragmentMarks[l])

\* the badges of the badges field stand in list order
BadgesInListOrder ==
    SelectSeq(ret.val, LAMBDA p : p \in FragmentMarks[6])
        = (IF present(entry, "badges") THEN ListedBadgeHrefs ELSE << >>)

\* the key of the metrics marker: the arXiv id when there is one, else the doi
MetricsKey ==
    "class=\"altmetric-embed\" " \in Pieces =>
        IF "arxiv_org_id" \in DOMAIN entry
        THEN /\ "data-arxiv-id=\"" \o str(entry["arxiv_org_id"]) \o "\"" \in Pieces
             /\ "doi" \in DOMAIN entry => "data-doi=\"" \o str(entry["doi"]) \o "\"" \notin Pieces
        ELSE /\ "doi" \in DOMAIN entry
             /\ "data-doi=\"" \o str(entry["doi"]) \o "\"" \in Pieces

\* the toggle targets the id of the abstract block, which comes after it
TogglePaired ==
    /\ FragmentMarks[5] \cap Pieces # {} <=> FragmentMarks[9] \cap Pieces # {}
    /\ FragmentMarks[5] \cap Pieces # {} =>
        /\ Count("data-target=\"#abstract_" \o entry["ID"] \o "\">") = 1
        /\ Count("<div class=\"collapse\" id=\"abstract_" \o entry["ID"] \o "\">\n") = 1

\* C11: a rendered list item holds its fragments in the order author line,
\* title, journal/volume/pages, year, abstract toggle, the badges of the badges
\* field in list order, the arXiv badge, the metrics marker (keyed on the arXiv
\* id when there is one, else on the doi), and the abstract block, whose id is
\* the target of the toggle.
C11_FragmentOrder ==
    Rendered => InClaimedOrder /\ BadgesInListOrder /\ MetricsKey /\ TogglePaired
====
